---- MODULE Spec2Model ----
(***************************************************************************)
(* Asynchronous AI-generation job pipeline of the email-campaign backend:  *)
(* job creation (generate / regenerate / refine / subject-line endpoints), *)
(* the Celery worker tasks, cancellation, polling and materialisation of a *)
(* variant into a template.  The API process and the worker process share  *)
(* only the ai_generation_jobs rows; every commit is one atomic step.      *)
(***************************************************************************)
EXTENDS Integers, Sequences, FiniteSets, TLC

\* ---------------------------------------------------------------- bounds
MaxJobs == 1
MaxTemplates == 2

\* ------------------------------------------------------------- constants
NULL_TS == 0            \* a NULL timestamp column
NOW == 1                \* any value returned by datetime.utcnow()
NULL_ID == 0            \* a NULL template_id
NULL_MSG == "<null>"    \* a NULL error_message

Orgs == {"orgA", "orgB"}
Campaigns == {"c1"}
campaign_org == [c \in Campaigns |-> "orgA"]

JobIds == 1..MaxJobs

\* AIJobStatus
PENDING == "pending"
PROCESSING == "processing"
COMPLETED == "completed"
FAILED == "failed"
CANCELLED == "cancelled"
Terminal == {COMPLETED, FAILED, CANCELLED}

\* AIJobType (the three types the endpoints create)
INITIAL_GENERATION == "initial_generation"
REFINEMENT == "refinement"
SUBJECT_LINE_TEST == "subject_line_test"

\* ------------------------------------------------- JSON documents (JSONB)
\* A parsed JSON value: an object ("dict") with or without the key
\* 'variants', or a non-object ("list").  NullDoc is SQL NULL.
Missing == -1           \* a variant without the key confidence_score
NullDoc == [t |-> "null", has_variants |-> FALSE, variants |-> <<>>, flat_score |-> Missing]

NoKey == "<no key>"     \* a variant without the key html_content / plain_text_content

\* A variant as the generation and refinement prompts ask for it, and as the
\* subject-line prompt asks for it (no html_content, no plain_text_content).
Variant(id, score) ==
    [variant_id |-> id, confidence_score |-> score, subject_line |-> "subject",
     html_content |-> "<html>", plain_text_content |-> "plain", reasoning |-> "reasoning"]
SubjectVariant(id, score) ==
    [variant_id |-> id, confidence_score |-> score, subject_line |-> "subject",
     html_content |-> NoKey, plain_text_content |-> NoKey, reasoning |-> "reasoning"]

Dict(vs) == [t |-> "dict", has_variants |-> TRUE, variants |-> vs, flat_score |-> Missing]
FlatDict(score) == [t |-> "dict", has_variants |-> FALSE, variants |-> <<>>, flat_score |-> score]
ListDoc == [t |-> "list", has_variants |-> FALSE, variants |-> <<>>, flat_score |-> Missing]

\* What json.loads(text) yields: a document, or the failure marker.
NotJSON == [t |-> "notjson", has_variants |-> FALSE, variants |-> <<>>, flat_score |-> Missing]

Docs == { Dict(<<Variant(1, 90), Variant(2, 70)>>),
          Dict(<<Variant(1, Missing)>>),
          Dict(<<SubjectVariant(1, 80)>>),
          Dict(<<>>),
          FlatDict(90),
          ListDoc }

\* A response of client.messages.create: it raises (ok = FALSE), or returns
\* a text.  Beside the text itself, what the parsers look at is kept: the
\* result of json.loads on the whole text, whether the fenced-block pattern
\* matches, and the result of json.loads on the matched group.
ApiError == [ok |-> FALSE, text |-> "", strict |-> NotJSON, fence |-> FALSE, inner |-> NotJSON]
Text(text, strict, fence, inner) ==
    [ok |-> TRUE, text |-> text, strict |-> strict, fence |-> fence, inner |-> inner]

Responses ==
    {ApiError}
    \cup { Text("json", d, FALSE, NotJSON) : d \in Docs }              \* plain JSON
    \cup { Text("fenced json", NotJSON, TRUE,
                Dict(<<Variant(1, 90), Variant(2, 70)>>)),              \* fenced JSON
           Text("fenced {'a': 1}", NotJSON, TRUE, NotJSON),             \* fence, bad inner
           Text("Dear reader", NotJSON, FALSE, NotJSON) }               \* raw prose

\* ----------------------------------------------------------------- state
VARIABLES
    jobs,              \* ai_generation_jobs: sequence of rows, id = index
    task,              \* per job id: state of its Celery task
    task_result,       \* per job id: the dict returned by the Celery task
    cancel_pc,         \* per job id: an in-flight cancel request that passed its check
    api_resp,          \* the last request about a job: endpoint, job id, HTTP status
    campaign_status,   \* campaigns.status
    templates,         \* email_templates: sequence of rows, id = index
    campaign_description, \* per campaign: the columns a job context copies
    prompt,            \* per job id: the prompt its worker sent to the model
    requests,          \* API requests between two of their database round trips
    generation_iterations, \* campaigns.generation_iterations
    scheduled_at       \* campaigns.scheduled_at

vars == <<jobs, task, task_result, cancel_pc, api_resp, campaign_status, templates,
          campaign_description, prompt, requests, generation_iterations, scheduled_at>>

\* Two requests can be in flight at once.
Reqs == {1, 2}
IdleRequest == [op |-> "idle", campaign_id |-> "none", job |-> 0, read |-> 0]

Descriptions == {"d0", "d1"}
NoPrompt == "<no prompt>"
NoCampaignContext == "None"     \* campaign_context of a subject-line job, line 539

\* The answer of an endpoint; code 0: the request has not been answered yet.
Response(op, j, code) == [op |-> op, job |-> j, code |-> code]

\* per job id: HTTP status of the last cancel request, if it was the last request
cancel_resp ==
    [j \in JobIds |-> IF api_resp.op = "cancel" /\ api_resp.job = j THEN api_resp.code ELSE 0]

\* per job id: HTTP status of the last create-template request, likewise
create_resp ==
    [j \in JobIds |-> IF api_resp.op = "create_template" /\ api_resp.job = j
                      THEN api_resp.code ELSE 0]

\* an email_templates row
NewTemplate(c, version, current) ==
    [campaign_id |-> c, version |-> version, is_current |-> current]

Init ==
    /\ jobs = <<>>
    /\ task = [j \in JobIds |-> "none"]
    /\ task_result = [j \in JobIds |-> "none"]
    /\ cancel_pc = [j \in JobIds |-> "idle"]
    /\ api_resp = Response("none", 0, 0)
    /\ campaign_status \in [Campaigns -> {"draft", "review"}]
    /\ templates \in {<<>>, <<NewTemplate("c1", 1, TRUE)>>}
    /\ campaign_description = [c \in Campaigns |-> "d0"]
    /\ prompt = [j \in JobIds |-> NoPrompt]
    /\ requests = [q \in Reqs |-> IdleRequest]
    /\ generation_iterations = [c \in Campaigns |-> 0]
    /\ scheduled_at = [c \in Campaigns |-> NULL_TS]

\* ------------------------------------------------------------ job rows
NewJob(c, type, context) ==
    [ campaign_id |-> c,
      job_type |-> type,
      context |-> context,
      status |-> PENDING,
      generated_content |-> NullDoc,
      confidence_score |-> Missing,
      started_at |-> NULL_TS,
      completed_at |-> NULL_TS,
      error_message |-> NULL_MSG,
      template_id |-> NULL_ID ]

JobExists(j) == j \in 1..Len(jobs)

\* ------------------------------------------------ response parsing/repair
\* str(e) of the exceptions the worker code can meet
MsgApi == "upstream error"
MsgTimeLimit == "SoftTimeLimitExceeded()"
MsgDecode == "Expecting value: line 1 column 1 (char 0)"
MsgNoGet == "'list' object has no attribute 'get'"
MsgIndex == "list index out of range"
MsgParseRefine == "Could not parse AI response as JSON"
MsgParseSubject == "Could not parse AI response"

\* sum(scores) and [v.get('confidence_score', default) for v in variants]
RECURSIVE SumScores(_, _)
SumScores(vs, default) ==
    IF vs = <<>> THEN 0
    ELSE (IF Head(vs).confidence_score = Missing THEN default
          ELSE Head(vs).confidence_score) + SumScores(Tail(vs), default)

\* sum(scores) / len(scores), scores in hundredths
MeanScore(vs, default) == SumScores(vs, default) \div Len(vs)

\* The result of the try-block of a process_*_job: the attributes assigned
\* to the job object before it ends (content = NullDoc when
\* job.generated_content was not assigned), whether it ended by an
\* exception, and str(e).
Ok(doc, score) == [raised |-> FALSE, content |-> doc, score |-> score, msg |-> NULL_MSG]
Raise(doc, msg) == [raised |-> TRUE, content |-> doc, score |-> Missing, msg |-> msg]

\* lines 232-234 / 640-642: average confidence after the output fields are set
AverageStep(doc, default) ==
    IF doc.t # "dict" THEN Raise(doc, MsgNoGet)
    ELSE IF doc.variants # <<>> THEN Ok(doc, MeanScore(doc.variants, default))
    ELSE Ok(doc, Missing)

\* lines 211-222: the raw text wrapped as the only variant
RawFallback(content_text) ==
    Dict(<<[variant_id |-> 1, confidence_score |-> 70, subject_line |-> "Generated Email",
            html_content |-> content_text, plain_text_content |-> content_text,
            reasoning |-> "Raw AI output"]>>)

TryGeneration(r) ==
    IF ~r.ok THEN Raise(NullDoc, MsgApi)
    ELSE IF r.strict # NotJSON THEN AverageStep(r.strict, 70)
    ELSE IF r.fence
         THEN IF r.inner = NotJSON THEN Raise(NullDoc, MsgDecode)
              ELSE AverageStep(r.inner, 70)
    ELSE AverageStep(RawFallback(r.text), 70)

\* lines 463-483: wrap a flat object, then take the first variant's score
WrapStep(doc) ==
    IF doc.t # "dict" THEN Raise(NullDoc, MsgNoGet)
    ELSE LET wrapped == IF doc.has_variants THEN doc
                        ELSE Dict(<<Variant(1, IF doc.flat_score = Missing THEN 85
                                               ELSE doc.flat_score)>>)
         IN IF wrapped.variants = <<>> THEN Raise(wrapped, MsgIndex)
            ELSE Ok(wrapped, IF wrapped.variants[1].confidence_score = Missing THEN 85
                             ELSE wrapped.variants[1].confidence_score)

TryRefinement(r) ==
    IF ~r.ok THEN Raise(NullDoc, MsgApi)
    ELSE IF r.strict # NotJSON THEN WrapStep(r.strict)
    ELSE IF r.fence
         THEN IF r.inner = NotJSON THEN Raise(NullDoc, MsgDecode)
              ELSE WrapStep(r.inner)
    ELSE Raise(NullDoc, MsgParseRefine)

TrySubjectLine_WithFallback(r) ==
    IF ~r.ok THEN Raise(NullDoc, MsgApi)
    ELSE IF r.strict # NotJSON THEN AverageStep(r.strict, 80)
    ELSE IF r.fence
         THEN IF r.inner = NotJSON THEN Raise(NullDoc, MsgDecode)
              ELSE AverageStep(r.inner, 80)
    ELSE AverageStep(RawFallback(r.text), 80)

TrySubjectLine(r) ==
    IF ~r.ok THEN Raise(NullDoc, MsgApi)
    ELSE IF r.strict # NotJSON THEN AverageStep(r.strict, 80)
    ELSE IF r.fence
         THEN IF r.inner = NotJSON THEN Raise(NullDoc, MsgDecode)
              ELSE AverageStep(r.inner, 80)
    ELSE Raise(NullDoc, MsgParseSubject)

\* The try-block the task dispatched for a job of this type runs:
\* process_email_generation, process_email_refinement,
\* process_subject_line_generation.
TryFor(type, r) ==
    CASE type = INITIAL_GENERATION -> TryGeneration(r)
      [] type = REFINEMENT -> TryRefinement(r)
      [] type = SUBJECT_LINE_TEST -> TrySubjectLine(r)

\* ------------------------------------------------------------ the worker
\* Lines 160-163 / 424-427 / 592-595: unconditional write of processing.
MarkProcessing_NoTimestamp(row) ==
    [row EXCEPT !.status = PROCESSING]

MarkProcessing_KeepStatus(row) ==
    [row EXCEPT !.started_at = NOW]

MarkProcessing(row) ==
    [row EXCEPT !.status = PROCESSING, !.started_at = NOW]

\* Lines 224-236: the columns the successful commit writes.
MarkCompleted_UnlessCancelled(row, out) ==
    IF row.status = CANCELLED THEN row
    ELSE [row EXCEPT !.generated_content = out.content,
                     !.status = COMPLETED,
                     !.completed_at = NOW,
                     !.confidence_score = IF out.score = Missing THEN @ ELSE out.score]

MarkCompleted(row, out) ==
    [row EXCEPT !.generated_content = out.content,
                !.status = COMPLETED,
                !.completed_at = NOW,
                !.confidence_score = IF out.score = Missing THEN @ ELSE out.score]

\* Lines 241-246: the except-handler commits status, error_message and
\* completed_at together with every attribute the try-block left dirty.
MarkFailed_NoMessage(row, out) ==
    [row EXCEPT !.generated_content = IF out.content = NullDoc THEN @ ELSE out.content,
                !.status = FAILED,
                !.completed_at = NOW]

MarkFailed(row, out) ==
    [row EXCEPT !.generated_content = IF out.content = NullDoc THEN @ ELSE out.content,
                !.status = FAILED,
                !.error_message = out.msg,
                !.completed_at = NOW]

\* build_generation_prompt / build_refinement_prompt /
\* build_subject_line_prompt are called on values of job.context only.
build_prompt_FromCampaign(row) == campaign_description[row.campaign_id]

build_prompt(row) == row.context

\* The task picks the job up: select by id, set processing, commit; then it
\* builds the prompt from the loaded row and sends it.
WorkerStart(j) ==
    /\ task[j] = "queued"
    /\ JobExists(j)
    /\ jobs' = [jobs EXCEPT ![j] = MarkProcessing(@)]
    /\ prompt' = [prompt EXCEPT ![j] = build_prompt(jobs[j])]
    /\ task' = [task EXCEPT ![j] = "calling"]
    /\ UNCHANGED <<task_result, cancel_pc, api_resp, campaign_status, templates,
                 campaign_description,
                 requests, generation_iterations, scheduled_at>>

\* The external call returns or raises; the try-block runs to its commit.
WorkerFinish(j, r) ==
    /\ task[j] = "calling"
    /\ LET out == TryFor(jobs[j].job_type, r) IN
         /\ jobs' = [jobs EXCEPT ![j] = IF out.raised THEN MarkFailed(@, out)
                                        ELSE MarkCompleted(@, out)]
         /\ task_result' = [task_result EXCEPT ![j] = IF out.raised THEN "failed"
                                                      ELSE "completed"]
    /\ task' = [task EXCEPT ![j] = "done"]
    /\ UNCHANGED <<cancel_pc, api_resp, campaign_status, templates, campaign_description, prompt,
                 requests, generation_iterations, scheduled_at>>

process_generation_job(j) ==
    /\ JobExists(j) /\ jobs[j].job_type = INITIAL_GENERATION
    /\ \/ WorkerStart(j)
       \/ \E r \in Responses : WorkerFinish(j, r)

process_refinement_job(j) ==
    /\ JobExists(j) /\ jobs[j].job_type = REFINEMENT
    /\ \/ WorkerStart(j)
       \/ \E r \in Responses : WorkerFinish(j, r)

process_subject_line_job(j) ==
    /\ JobExists(j) /\ jobs[j].job_type = SUBJECT_LINE_TEST
    /\ \/ WorkerStart(j)
       \/ \E r \in Responses : WorkerFinish(j, r)

\* ------------------------------------------------------- campaign status
\* CampaignService._validate_status_transition: allowed_transitions
allowed_transitions(current) ==
    CASE current = "draft" -> {"generating", "review", "scheduled", "archived"}
      [] current = "generating" -> {"draft", "review"}
      [] current = "review" -> {"draft", "scheduled", "archived"}
      [] current = "scheduled" -> {"sending", "paused", "archived"}
      [] current = "sending" -> {"sent", "paused"}
      [] current = "sent" -> {"archived"}
      [] current = "paused" -> {"scheduled", "sending", "archived"}
      [] OTHER -> {}

\* ------------------------------------------------------ creating a job
\* db.add(job); commit: the new row gets the next id; dispatched tells
\* whether the endpoint's background task (task.delay) runs.
AddJob(c, type, context, dispatched) ==
    /\ Len(jobs) < MaxJobs
    /\ jobs' = Append(jobs, NewJob(c, type, context))
    /\ task' = [task EXCEPT ![Len(jobs) + 1] = IF dispatched THEN "queued" ELSE "none"]

\* POST /campaigns/{id}/generate
\* The job is committed by create_generation_job before
\* change_campaign_status validates the transition; its ValueError is
\* answered 404, and the background task of a failed request is not run.
generate_email_content(c, org) ==
    /\ campaign_org[c] = org                 \* else "Campaign not found", 404
    /\ LET allowed == "generating" \in allowed_transitions(campaign_status[c]) IN
         /\ AddJob(c, INITIAL_GENERATION, campaign_description[c], allowed)
         /\ campaign_status' = IF allowed
                               THEN [campaign_status EXCEPT ![c] = "generating"]
                               ELSE campaign_status
         /\ api_resp' = Response("generate", Len(jobs) + 1, IF allowed THEN 202 ELSE 404)
    /\ UNCHANGED <<task_result, cancel_pc, templates, campaign_description, prompt,
                 requests, generation_iterations, scheduled_at>>

\* POST /campaigns/{id}/regenerate
regenerate_email_content(c, org) ==
    /\ campaign_org[c] = org                 \* else 404
    /\ generation_iterations' = [generation_iterations EXCEPT ![c] = @ + 1]
    /\ AddJob(c, INITIAL_GENERATION, campaign_description[c], TRUE)
    /\ UNCHANGED <<task_result, cancel_pc, api_resp, campaign_status, templates,
                 campaign_description, prompt,
                 requests, scheduled_at>>

\* POST /campaigns/{id}/subject-lines
\* (the campaign is looked up for its context only; a miss is not an error)
generate_subject_line_variants(c, org) ==
    /\ AddJob(c, SUBJECT_LINE_TEST,
              IF campaign_org[c] = org THEN campaign_description[c] ELSE NoCampaignContext,
              TRUE)
    /\ UNCHANGED <<task_result, cancel_pc, api_resp, campaign_status, templates,
                 campaign_description, prompt,
                 requests, generation_iterations, scheduled_at>>

\* context["original_template"]: the copy of the template's columns
OriginalTemplate(t) == "template v" \o ToString(templates[t].version)

\* POST /campaigns/{id}/templates/{tid}/refine
\* (the template is selected by id and campaign id, not by organisation)
refine_email_content(t, c, org) ==
    /\ t \in 1..Len(templates) /\ templates[t].campaign_id = c   \* else "Template not found", 404
    /\ AddJob(c, REFINEMENT, OriginalTemplate(t), TRUE)
    /\ UNCHANGED <<task_result, cancel_pc, api_resp, campaign_status, templates,
                 campaign_description, prompt,
                 requests, generation_iterations, scheduled_at>>

\* ------------------------------------------------------- reading a job
\* AIGenerationService.get_generation_job: the row, or 0 for None
get_generation_job_NoOrgCheck(j, c, org) ==
    IF JobExists(j) /\ jobs[j].campaign_id = c THEN j
    ELSE 0

get_generation_job(j, c, org) ==
    IF campaign_org[c] # org THEN 0
    ELSE IF JobExists(j) /\ jobs[j].campaign_id = c THEN j
    ELSE 0

\* ---------------------------------------------------------- cancelling
Cancellable_WithCompleted == {PENDING, PROCESSING, COMPLETED}

Cancellable == {PENDING, PROCESSING}

MarkCancelled(row) ==
    [row EXCEPT !.status = CANCELLED, !.completed_at = NOW]

\* cancel_job up to its status check (lines 767-773): the job is read in
\* the request's own session; the write below is a later round trip.
CancelCheck(j, c, org) ==
    /\ JobExists(j)            \* ids are fresh uuid4: an unknown id never names a later job
    /\ cancel_pc[j] = "idle"
    /\ LET found == get_generation_job(j, c, org) IN
         IF found = 0
         THEN /\ api_resp' = Response("cancel", j, 404)
              /\ UNCHANGED cancel_pc
         ELSE IF jobs[found].status \notin Cancellable
         THEN /\ api_resp' = Response("cancel", j, 400)
              /\ UNCHANGED cancel_pc
         ELSE /\ cancel_pc' = [cancel_pc EXCEPT ![j] = "checked"]
              /\ api_resp' = Response("cancel", j, 0)
    /\ UNCHANGED <<jobs, task, task_result, campaign_status, templates,
                 campaign_description, prompt,
                 requests, generation_iterations, scheduled_at>>

\* cancel_job from the assignment to the commit (lines 775-781)
CancelCommit(j) ==
    /\ cancel_pc[j] = "checked"
    /\ jobs' = [jobs EXCEPT ![j] = MarkCancelled(@)]
    /\ cancel_pc' = [cancel_pc EXCEPT ![j] = "idle"]
    /\ api_resp' = Response("cancel", j, 200)
    /\ UNCHANGED <<task, task_result, campaign_status, templates, campaign_description, prompt,
                 requests, generation_iterations, scheduled_at>>

cancel_job(j) ==
    \/ \E c \in Campaigns, org \in Orgs : CancelCheck(j, c, org)
    \/ CancelCommit(j)

\* ------------------------------------------- materialising a variant
\* next(v for v in variants if v['variant_id'] == variant_id): index or 0
FindVariant_First(vs, variant_id) ==
    IF vs # <<>> THEN 1 ELSE 0

FindVariant(vs, variant_id) ==
    IF \E i \in 1..Len(vs) : vs[i].variant_id = variant_id
    THEN CHOOSE i \in 1..Len(vs) :
            /\ vs[i].variant_id = variant_id
            /\ \A k \in 1..(i - 1) : vs[k].variant_id # variant_id
    ELSE 0

NewVersion_Latest(c) ==
    LET versions == { templates[i].version : i \in { k \in 1..Len(templates) : templates[k].campaign_id = c } }
    IN IF versions = {} THEN 1
       ELSE CHOOSE v \in versions : \A w \in versions : w <= v

\* latest_template.version + 1 over the campaign's templates, else 1
NewVersion(c) ==
    LET versions == { templates[i].version : i \in { k \in 1..Len(templates) : templates[k].campaign_id = c } }
    IN IF versions = {} THEN 1
       ELSE (CHOOSE v \in versions : \A w \in versions : w <= v) + 1

\* POST /campaigns/{id}/generate/{job_id}/create-template
\* The job is selected by (id, campaign_id) only.  ValueError is answered
\* 404; the KeyError of a variant without html_content is not caught: 500.
create_template_from_variant(c, org, j, variant_id) ==
    /\ JobExists(j)            \* ids are fresh uuid4: an unknown id never names a later job
    /\ LET found == jobs[j].campaign_id = c
           i == FindVariant(jobs[j].generated_content.variants, variant_id)
       IN IF ~found \/ jobs[j].status # COMPLETED
          THEN /\ api_resp' = Response("create_template", j, 404)
               /\ UNCHANGED <<jobs, templates>>
          ELSE IF i = 0
          THEN /\ api_resp' = Response("create_template", j, 404)
               /\ UNCHANGED <<jobs, templates>>
          ELSE IF jobs[j].generated_content.variants[i].html_content = NoKey
          THEN /\ api_resp' = Response("create_template", j, 500)
               /\ UNCHANGED <<jobs, templates>>
          ELSE /\ Len(templates) < MaxTemplates
               /\ templates' = Append(templates, NewTemplate(c, NewVersion(c), FALSE))
               /\ jobs' = [jobs EXCEPT ![j].template_id = Len(templates) + 1]
               /\ api_resp' = Response("create_template", j, 201)
    /\ UNCHANGED <<task, task_result, cancel_pc, campaign_status, campaign_description, prompt,
                 requests, generation_iterations, scheduled_at>>

\* ------------------------------------------------- editing the campaign
\* Campaign.is_editable
Editable == {"draft", "review", "paused"}

\* PUT /campaigns/{id}: CampaignService.update_campaign
update_campaign(c, org, d) ==
    /\ campaign_org[c] = org                 \* else None, 404
    /\ campaign_status[c] \in Editable       \* else ValueError, 400
    /\ campaign_description' = [campaign_description EXCEPT ![c] = d]
    /\ UNCHANGED <<jobs, task, task_result, cancel_pc, api_resp, campaign_status, templates,
                   prompt,
                 requests, generation_iterations, scheduled_at>>

\* ------------------------------------------------------- specification
VariantIds == 1..2

Next ==
    \/ \E c \in Campaigns, org \in Orgs : generate_email_content(c, org)
    \/ \E c \in Campaigns, org \in Orgs : regenerate_email_content(c, org)
    \/ \E c \in Campaigns, org \in Orgs : generate_subject_line_variants(c, org)
    \/ \E t \in 1..MaxTemplates, c \in Campaigns, org \in Orgs : refine_email_content(t, c, org)
    \/ \E j \in JobIds : process_generation_job(j)
    \/ \E j \in JobIds : process_refinement_job(j)
    \/ \E j \in JobIds : process_subject_line_job(j)
    \/ \E j \in JobIds : cancel_job(j)
    \/ \E c \in Campaigns, org \in Orgs, j \in JobIds, v \in VariantIds :
          create_template_from_variant(c, org, j, v)

Spec == Init /\ [][Next]_vars

\* The jobs of a campaign that is edited meanwhile.  The worker gets one
\* response of each outcome: an exception, JSON, prose.
ContextResponses ==
    { ApiError,
      Text("json", Dict(<<Variant(1, 90), Variant(2, 70)>>), FALSE, NotJSON),
      Text("Dear reader", NotJSON, FALSE, NotJSON) }

process_job(j) ==
    /\ JobExists(j)
    /\ \/ WorkerStart(j)
       \/ \E r \in ContextResponses : WorkerFinish(j, r)

NextContext ==
    \/ \E c \in Campaigns, org \in Orgs : generate_email_content(c, org)
    \/ \E c \in Campaigns, org \in Orgs : regenerate_email_content(c, org)
    \/ \E c \in Campaigns, org \in Orgs : generate_subject_line_variants(c, org)
    \/ \E t \in 1..MaxTemplates, c \in Campaigns, org \in Orgs : refine_email_content(t, c, org)
    \/ \E j \in JobIds : process_job(j)
    \/ \E j \in JobIds : cancel_job(j)
    \/ \E c \in Campaigns, org \in Orgs, j \in JobIds, v \in VariantIds :
          create_template_from_variant(c, org, j, v)
    \/ \E c \in Campaigns, org \in Orgs, d \in Descriptions : update_campaign(c, org, d)

SpecContext == Init /\ [][NextContext]_vars

\* ------------------------------------------- campaign status endpoints
\* CampaignService.change_campaign_status behind an endpoint: the
\* transition is validated, ValueError is answered 400.  clear: the
\* endpoint has set campaign.scheduled_at = None on the session's object
\* before the call, which the commit of an accepted change writes.
change_campaign_status(c, org, new_status, op, clear) ==
    /\ campaign_org[c] = org                 \* else None, 404
    /\ LET ok == new_status \in allowed_transitions(campaign_status[c]) IN
         /\ campaign_status' = IF ok THEN [campaign_status EXCEPT ![c] = new_status]
                               ELSE campaign_status
         /\ scheduled_at' = IF ok /\ clear THEN [scheduled_at EXCEPT ![c] = NULL_TS]
                            ELSE scheduled_at
         /\ api_resp' = Response(op, 0, IF ok THEN 200 ELSE 400)
    /\ UNCHANGED <<jobs, task, task_result, cancel_pc, templates, campaign_description, prompt,
                   requests, generation_iterations>>

archive_campaign(c, org) == change_campaign_status(c, org, "archived", "archive", FALSE)
send_campaign(c, org) == change_campaign_status(c, org, "sending", "send", FALSE)
pause_campaign(c, org) == change_campaign_status(c, org, "paused", "pause", FALSE)
resume_campaign(c, org) == change_campaign_status(c, org, "scheduled", "resume", FALSE)
cancel_campaign(c, org) == change_campaign_status(c, org, "draft", "cancel_campaign", TRUE)

\* CampaignService.schedule_campaign: the time must lie in the future; the
\* status is assigned without _validate_status_transition.
schedule_campaign(c, org, future) ==
    /\ campaign_org[c] = org                 \* else None, 404
    /\ campaign_status' = IF future THEN [campaign_status EXCEPT ![c] = "scheduled"]
                          ELSE campaign_status
    /\ scheduled_at' = IF future THEN [scheduled_at EXCEPT ![c] = NOW] ELSE scheduled_at
    /\ api_resp' = Response("schedule", 0, IF future THEN 200 ELSE 400)
    /\ UNCHANGED <<jobs, task, task_result, cancel_pc, templates, campaign_description, prompt,
                   requests, generation_iterations>>

NextCampaign ==
    \/ \E c \in Campaigns, org \in Orgs : generate_email_content(c, org)
    \/ \E c \in Campaigns, org \in Orgs : regenerate_email_content(c, org)
    \/ \E c \in Campaigns, org \in Orgs, d \in Descriptions : update_campaign(c, org, d)
    \/ \E c \in Campaigns, org \in Orgs : archive_campaign(c, org)
    \/ \E c \in Campaigns, org \in Orgs, future \in BOOLEAN : schedule_campaign(c, org, future)
    \/ \E c \in Campaigns, org \in Orgs : send_campaign(c, org)
    \/ \E c \in Campaigns, org \in Orgs : pause_campaign(c, org)
    \/ \E c \in Campaigns, org \in Orgs : resume_campaign(c, org)
    \/ \E c \in Campaigns, org \in Orgs : cancel_campaign(c, org)

SpecCampaign == Init /\ [][NextCampaign]_vars

\* ------------------------------- two create-template requests at once
\* UniqueConstraint('campaign_id', 'version'): would a row of this
\* campaign and version violate uq_campaign_version?
uq_campaign_version_Off(c, version) == FALSE

uq_campaign_version(c, version) ==
    \E i \in 1..Len(templates) :
        templates[i].campaign_id = c /\ templates[i].version = version

\* create_template_from_variant up to new_version (lines 272-299), for a
\* completed job and a variant it holds: three SELECTs, no write.
MaterialiseRead(q, c, org, j, variant_id) ==
    /\ requests[q] = IdleRequest
    /\ JobExists(j) /\ jobs[j].campaign_id = c /\ jobs[j].status = COMPLETED
    /\ LET i == FindVariant(jobs[j].generated_content.variants, variant_id) IN
         /\ i # 0
         /\ jobs[j].generated_content.variants[i].html_content # NoKey
    /\ requests' = [requests EXCEPT ![q] = [op |-> "create_template", campaign_id |-> c,
                                            job |-> j, read |-> NewVersion(c)]]
    /\ UNCHANGED <<jobs, task, task_result, cancel_pc, api_resp, campaign_status, templates,
                   campaign_description, prompt, generation_iterations, scheduled_at>>

\* ... and from db.add(template) to the commit (lines 301-333).  The flush
\* raises IntegrityError when the version was taken meanwhile; the endpoint
\* catches ValueError only: 500, nothing is written.
MaterialiseInsert(q) ==
    /\ requests[q].op = "create_template"
    /\ LET c == requests[q].campaign_id
           j == requests[q].job
       IN IF uq_campaign_version(c, requests[q].read)
          THEN /\ api_resp' = Response("create_template", j, 500)
               /\ UNCHANGED <<jobs, templates>>
          ELSE /\ Len(templates) < MaxTemplates
               /\ templates' = Append(templates, NewTemplate(c, requests[q].read, FALSE))
               /\ jobs' = [jobs EXCEPT ![j].template_id = Len(templates) + 1]
               /\ api_resp' = Response("create_template", j, 201)
    /\ requests' = [requests EXCEPT ![q] = IdleRequest]
    /\ UNCHANGED <<task, task_result, cancel_pc, campaign_status, campaign_description, prompt,
                   generation_iterations, scheduled_at>>

NextMaterialise ==
    \/ \E c \in Campaigns, org \in Orgs : generate_email_content(c, org)
    \/ \E c \in Campaigns, org \in Orgs : regenerate_email_content(c, org)
    \/ \E c \in Campaigns, org \in Orgs : generate_subject_line_variants(c, org)
    \/ \E t \in 1..MaxTemplates, c \in Campaigns, org \in Orgs : refine_email_content(t, c, org)
    \/ \E j \in JobIds : process_job(j)
    \/ \E q \in Reqs, c \in Campaigns, org \in Orgs, j \in JobIds, v \in VariantIds :
          MaterialiseRead(q, c, org, j, v)
    \/ \E q \in Reqs : MaterialiseInsert(q)

SpecMaterialise == Init /\ [][NextMaterialise]_vars

\* --------------------------------- two regenerate requests at once
\* regenerate_email_content up to get_campaign (lines 566-576): the
\* campaign row is loaded into the request's session.
RegenerateRead(q, c, org) ==
    /\ requests[q] = IdleRequest
    /\ campaign_org[c] = org                 \* else 404
    /\ requests' = [requests EXCEPT ![q] = [op |-> "regenerate", campaign_id |-> c,
                                            job |-> 0, read |-> generation_iterations[c]]]
    /\ UNCHANGED <<jobs, task, task_result, cancel_pc, api_resp, campaign_status, templates,
                   campaign_description, prompt, generation_iterations, scheduled_at>>

\* campaign.generation_iterations += 1; commit (lines 578-579): the UPDATE
\* sets the column to the value computed from the loaded row.
RegenerateCommit(q) ==
    /\ requests[q].op = "regenerate"
    /\ generation_iterations' =
          [generation_iterations EXCEPT ![requests[q].campaign_id] = requests[q].read + 1]
    /\ requests' = [requests EXCEPT ![q].op = "regenerate_job"]
    /\ UNCHANGED <<jobs, task, task_result, cancel_pc, api_resp, campaign_status, templates,
                   campaign_description, prompt, scheduled_at>>

\* create_generation_job and the background task (lines 581-602): 202
\* (org is the campaign's own: RegenerateRead has checked it).
RegenerateCreate(q) ==
    /\ requests[q].op = "regenerate_job"
    /\ LET c == requests[q].campaign_id IN
         AddJob(c, INITIAL_GENERATION, campaign_description[c], TRUE)
    /\ api_resp' = Response("regenerate", Len(jobs) + 1, 202)
    /\ requests' = [requests EXCEPT ![q] = IdleRequest]
    /\ UNCHANGED <<task_result, cancel_pc, campaign_status, templates, campaign_description,
                   prompt, generation_iterations, scheduled_at>>

NextRegenerate ==
    \/ \E q \in Reqs, c \in Campaigns, org \in Orgs : RegenerateRead(q, c, org)
    \/ \E q \in Reqs : RegenerateCommit(q)
    \/ \E q \in Reqs : RegenerateCreate(q)
    \/ \E j \in JobIds : process_job(j)
    \/ \E j \in JobIds : cancel_job(j)

SpecRegenerate == Init /\ [][NextRegenerate]_vars

\* ------------------------------------------- the worker's environment
\* The task message of a job is delivered once more after a run has ended
\* (process_email_generation.delay(job_id) takes any job id).
Reinvoke(j) ==
    /\ JobExists(j)
    /\ task[j] \in {"done", "killed"}
    /\ task' = [task EXCEPT ![j] = "queued"]
    /\ UNCHANGED <<jobs, task_result, cancel_pc, api_resp, campaign_status, templates,
                   campaign_description, prompt,
                 requests, generation_iterations, scheduled_at>>

\* The time limits of celery_app.conf during the external call.  The soft
\* limit raises SoftTimeLimitExceeded in the task: when it surfaces inside
\* the try-block the handler marks the job failed.  Otherwise, and at the
\* hard limit, the pool process ends without having written anything.
TimeLimit(j, caught) ==
    /\ JobExists(j)
    /\ task[j] = "calling"
    /\ IF caught
       THEN /\ jobs' = [jobs EXCEPT ![j] = MarkFailed(@, Raise(NullDoc, MsgTimeLimit))]
            /\ task_result' = [task_result EXCEPT ![j] = "failed"]
            /\ task' = [task EXCEPT ![j] = "done"]
       ELSE /\ task' = [task EXCEPT ![j] = "killed"]
            /\ UNCHANGED <<jobs, task_result>>
    /\ UNCHANGED <<cancel_pc, api_resp, campaign_status, templates, campaign_description, prompt,
                 requests, generation_iterations, scheduled_at>>

Worker(j) ==
    \/ process_job(j)
    \/ \E caught \in BOOLEAN : TimeLimit(j, caught)

NextWorker ==
    \/ \E c \in Campaigns, org \in Orgs : generate_email_content(c, org)
    \/ \E c \in Campaigns, org \in Orgs : regenerate_email_content(c, org)
    \/ \E c \in Campaigns, org \in Orgs : generate_subject_line_variants(c, org)
    \/ \E t \in 1..MaxTemplates, c \in Campaigns, org \in Orgs : refine_email_content(t, c, org)
    \/ \E j \in JobIds : Worker(j)
    \/ \E j \in JobIds : cancel_job(j)
    \/ \E j \in JobIds : Reinvoke(j)

SpecWorker == Init /\ [][NextWorker]_vars

\* The worker pool keeps running: a task that can take a step takes one.
SpecWorkerFair == SpecWorker /\ \A j \in JobIds : WF_vars(Worker(j))

\* =================================================== properties of the job

\* C1: once a job row holds completed, failed or cancelled, no later write
\* changes its status (the statuses of a row form a prefix of
\* pending -> processing -> terminal).
C1_TerminalStatusFrozen ==
    [][\A j \in JobIds :
          (JobExists(j) /\ jobs[j].status \in Terminal)
             => jobs'[j].status = jobs[j].status]_vars

\* C2: in every reachable state of every job row, generated_content is
\* non-null exactly when status = completed.
C2_ContentIffCompleted ==
    \A j \in JobIds : JobExists(j) =>
        ((jobs[j].generated_content # NullDoc) <=> (jobs[j].status = COMPLETED))

\* C3: in every reachable state of every job row, error_message is non-null
\* exactly when status = failed.
C3_ErrorIffFailed ==
    \A j \in JobIds : JobExists(j) =>
        ((jobs[j].error_message # NULL_MSG) <=> (jobs[j].status = FAILED))

\* C4: in every reachable state of every job row, completed_at is non-null
\* exactly when status is completed, failed or cancelled.
C4_CompletedAtIffTerminal ==
    \A j \in JobIds : JobExists(j) =>
        ((jobs[j].completed_at # NULL_TS) <=> (jobs[j].status \in Terminal))

\* C5 as stated: every job row whose status is not pending has started_at
\* non-null, also a job cancelled while pending.
C5_StartedUnlessPending ==
    \A j \in JobIds : JobExists(j) =>
        (jobs[j].status # PENDING => jobs[j].started_at # NULL_TS)

\* C5 amended: every job row whose status is processing, completed or failed
\* has started_at non-null; cancel_job never writes started_at, so a job
\* cancelled while pending stays without it.
C5_StartedWhenWorked ==
    /\ \A j \in JobIds : JobExists(j) =>
          (jobs[j].status \in {PROCESSING, COMPLETED, FAILED} => jobs[j].started_at # NULL_TS)
    /\ \A j \in JobIds : JobExists(j) =>
          (task[j] \in {"none", "queued"} => jobs[j].started_at = NULL_TS)

C5_Witness ==
    \E j \in JobIds :
        /\ JobExists(j)
        /\ jobs[j].status = CANCELLED
        /\ jobs[j].started_at = NULL_TS
        /\ task[j] = "queued"

\* C6: a cancel request that finds the job in status completed, failed or
\* cancelled is answered 400 and changes no field of any job row.
C6_CancelGuard ==
    [][\A j \in JobIds, c \in Campaigns, org \in Orgs :
          ( /\ CancelCheck(j, c, org)
            /\ get_generation_job(j, c, org) # 0
            /\ jobs[j].status \in Terminal )
          => ( /\ cancel_resp'[j] = 400
               /\ jobs' = jobs
               /\ cancel_pc' = cancel_pc )]_vars

C6_Witness ==
    \E j \in JobIds :
        /\ JobExists(j)
        /\ jobs[j].status = COMPLETED
        /\ jobs[j].generated_content # NullDoc
        /\ cancel_resp[j] = 400

\* C7: a job's status becomes cancelled only by the commit of cancel_job and
\* only from pending or processing, and that commit leaves the row
\* cancelled with completed_at set.
C7_CancelledOnlyFromActive ==
    [][\A j \in JobIds :
          /\ (JobExists(j) /\ jobs[j].status # CANCELLED /\ jobs'[j].status = CANCELLED)
                => ( /\ jobs[j].status \in {PENDING, PROCESSING}
                     /\ cancel_pc[j] = "checked"
                     /\ cancel_resp'[j] = 200 )
          /\ (JobExists(j) /\ cancel_resp[j] # 200 /\ cancel_resp'[j] = 200)
                => (jobs'[j].status = CANCELLED /\ jobs'[j].completed_at # NULL_TS)]_vars

\* C8: a pending job leaves pending only to processing (by the worker, which
\* sets started_at in the same step) or to cancelled; completed and failed
\* are written only by a worker that has written processing before.
C8_NoSkipOfProcessing ==
    [][\A j \in JobIds : JobExists(j) =>
          /\ (jobs[j].status = PENDING /\ jobs'[j].status # PENDING)
                => jobs'[j].status \in {PROCESSING, CANCELLED}
          /\ (jobs[j].status # PROCESSING /\ jobs'[j].status = PROCESSING)
                => ( /\ jobs'[j].started_at # NULL_TS
                     /\ task[j] = "queued"
                     /\ task'[j] = "calling" )
          /\ (jobs'[j].status \in {COMPLETED, FAILED} /\ jobs'[j].status # jobs[j].status)
                => ( /\ task[j] = "calling"
                     /\ jobs[j].started_at # NULL_TS
                     /\ jobs[j].status # PENDING )]_vars

C8_Witness ==
    \E j \in JobIds :
        /\ JobExists(j)
        /\ jobs[j].status = FAILED
        /\ jobs[j].started_at # NULL_TS
        /\ task[j] = "done"

\* C9: once a job row has status failed, no later operation changes its
\* status or its error_message, and the owner's get_generation_job keeps
\* returning it.
C9_FailedIsFinal ==
    [][\A j \in JobIds :
          (JobExists(j) /\ jobs[j].status = FAILED)
             => ( /\ jobs'[j].status = FAILED
                  /\ jobs'[j].error_message = jobs[j].error_message
                  /\ get_generation_job(j, jobs[j].campaign_id,
                                        campaign_org[jobs[j].campaign_id])' = j )]_vars

\* C10: a worker execution whose try-block raises after the job was set to
\* processing ends with the row failed, error_message = str(e),
\* completed_at set, and the task returning a 'failed' result.
C10_ExceptionEndsFailed ==
    [][\A j \in JobIds, r \in Responses :
          ( /\ JobExists(j)
            /\ WorkerFinish(j, r)
            /\ TryFor(jobs[j].job_type, r).raised )
          => ( /\ jobs'[j].status = FAILED
               /\ jobs'[j].error_message = TryFor(jobs[j].job_type, r).msg
               /\ jobs'[j].error_message # NULL_MSG
               /\ jobs'[j].completed_at # NULL_TS
               /\ task_result'[j] = "failed"
               /\ task'[j] = "done" )]_vars

C10_Witness ==
    \E j \in JobIds :
        /\ JobExists(j)
        /\ jobs[j].job_type = REFINEMENT
        /\ jobs[j].status = FAILED
        /\ jobs[j].error_message = MsgParseRefine
        /\ task_result[j] = "failed"

\* =============================================== tenant scope of the jobs

\* C11: for an existing job and its campaign, a caller of another
\* organisation gets from get_generation_job what a caller gets for a job id
\* that does not exist (None), and a cancel request of such a caller is
\* answered 404 and changes nothing.
C11_ForeignOrgSeesNotFound ==
    [][\A j \in JobIds, c \in Campaigns, org \in Orgs :
          (JobExists(j) /\ jobs[j].campaign_id = c /\ campaign_org[c] # org)
          => ( /\ get_generation_job(j, c, org) = 0
               /\ get_generation_job(j, c, org)
                     = get_generation_job(MaxJobs + 1, c, campaign_org[c])
               /\ CancelCheck(j, c, org)
                     => ( /\ cancel_resp'[j] = 404
                          /\ jobs' = jobs
                          /\ cancel_pc' = cancel_pc ) )]_vars

C11_Witness ==
    \E j \in JobIds :
        /\ JobExists(j)
        /\ jobs[j].status \in {PENDING, PROCESSING}
        /\ cancel_resp[j] = 404

\* C12: a job-creating call (generate, regenerate, subject lines, refine)
\* of a user whose organisation does not own the campaign creates no job row.
C12_JobsOnlyOnOwnCampaign ==
    [][\A c \in Campaigns, org \in Orgs :
          ( /\ campaign_org[c] # org
            /\ \/ generate_email_content(c, org)
               \/ regenerate_email_content(c, org)
               \/ generate_subject_line_variants(c, org)
               \/ \E t \in 1..MaxTemplates : refine_email_content(t, c, org) )
          => jobs' = jobs]_vars

\* C13: a create-template request for an existing job and its campaign by a
\* user of an organisation that does not own the campaign is answered 404,
\* creates no template and leaves the job's template_id unchanged.
C13_ForeignOrgCannotMaterialise ==
    [][\A c \in Campaigns, org \in Orgs, j \in JobIds, v \in 1..2 :
          ( /\ JobExists(j) /\ jobs[j].campaign_id = c
            /\ campaign_org[c] # org
            /\ create_template_from_variant(c, org, j, v) )
          => ( /\ create_resp'[j] = 404
               /\ templates' = templates
               /\ jobs'[j].template_id = jobs[j].template_id )]_vars

\* =================================================== unparseable responses

\* C14: when the response to an initial_generation job is neither valid JSON
\* nor holds a fenced JSON object, the worker ends the job completed, with
\* exactly one variant: variant_id 1, the raw text as html_content and as
\* plain_text_content, reasoning 'Raw AI output', confidence 0.7; the job is
\* not marked failed.
C14_RawTextFallback ==
    [][\A j \in JobIds, r \in Responses :
          ( /\ JobExists(j) /\ jobs[j].job_type = INITIAL_GENERATION
            /\ r.ok /\ r.strict = NotJSON /\ (~r.fence \/ r.inner = NotJSON)
            /\ WorkerFinish(j, r) )
          => ( /\ jobs'[j].status = COMPLETED
               /\ Len(jobs'[j].generated_content.variants) = 1
               /\ jobs'[j].generated_content.variants[1].variant_id = 1
               /\ jobs'[j].generated_content.variants[1].html_content = r.text
               /\ jobs'[j].generated_content.variants[1].plain_text_content = r.text
               /\ jobs'[j].generated_content.variants[1].reasoning = "Raw AI output"
               /\ jobs'[j].generated_content.variants[1].confidence_score = 70
               /\ jobs'[j].confidence_score = 70 )]_vars

\* C15: when the response to a subject_line_test job is neither valid JSON
\* nor holds a fenced JSON object, the worker ends the job failed, with an
\* error_message and with generated_content NULL: no variant is made up.
C15_SubjectLineParseFailureIsFatal ==
    [][\A j \in JobIds, r \in Responses :
          ( /\ JobExists(j) /\ jobs[j].job_type = SUBJECT_LINE_TEST
            /\ r.ok /\ r.strict = NotJSON /\ (~r.fence \/ r.inner = NotJSON)
            /\ WorkerFinish(j, r) )
          => ( /\ jobs'[j].status = FAILED
               /\ jobs'[j].error_message # NULL_MSG
               /\ jobs'[j].generated_content = NullDoc
               /\ task_result'[j] = "failed" )]_vars

\* a subject-line job failed by the ValueError of line 630
C15_Witness ==
    \E j \in JobIds :
        /\ JobExists(j)
        /\ jobs[j].job_type = SUBJECT_LINE_TEST
        /\ jobs[j].status = FAILED
        /\ jobs[j].error_message = MsgParseSubject
        /\ jobs[j].generated_content = NullDoc

\* C16: when the response to a refinement job is neither valid JSON nor
\* holds a fenced JSON object, the worker wraps the raw text as the single
\* variant, as for an initial_generation job, and ends the job completed.
C16_RefinementFallback ==
    [][\A j \in JobIds, r \in Responses :
          ( /\ JobExists(j) /\ jobs[j].job_type = REFINEMENT
            /\ r.ok /\ r.strict = NotJSON /\ (~r.fence \/ r.inner = NotJSON)
            /\ WorkerFinish(j, r) )
          => ( /\ jobs'[j].status = COMPLETED
               /\ jobs'[j].generated_content = RawFallback(r.text) )]_vars

\* ======================================================= materialisation

C19_ContextFixedAtCreation ==
    [][\A j \in JobIds : JobExists(j) =>
          ( /\ jobs'[j].context = jobs[j].context
            /\ WorkerStart(j) => prompt'[j] = jobs[j].context )]_vars

\* the campaign was edited after the job was created; the worker has run
\* with the prompt of the job's context
C19_Witness ==
    \E j \in JobIds :
        /\ JobExists(j)
        /\ jobs[j].job_type = INITIAL_GENERATION
        /\ jobs[j].context # campaign_description[jobs[j].campaign_id]
        /\ jobs[j].status \in Terminal
        /\ prompt[j] = jobs[j].context

\* =============================================================== dispatch

\* C20: whenever an endpoint commits a new (pending) job row, the worker
\* task for that job is enqueued.
C20_CreatedJobsAreEnqueued ==
    [][Len(jobs') > Len(jobs) => task'[Len(jobs')] = "queued"]_vars

\* ========================================================= worker runs

\* C21: a worker run on a job whose row is completed does not run the job
\* again: the row is left as it is and no prompt is sent to the model.
C21_CompletedJobIsNotRerun ==
    [][\A j \in JobIds :
          (JobExists(j) /\ jobs[j].status = COMPLETED /\ WorkerStart(j))
          => (jobs' = jobs /\ task'[j] # "calling")]_vars

\* C22: when the worker's commit after the external call meets a row that
\* a cancel request has set to cancelled meanwhile, it writes completed or
\* failed over it (no conditional update).
C22_WorkerOverwritesCancelled ==
    [][\A j \in JobIds, r \in Responses :
          (JobExists(j) /\ jobs[j].status = CANCELLED /\ WorkerFinish(j, r))
          => jobs'[j].status \in {COMPLETED, FAILED}]_vars

\* the worker is inside the external call (it has set processing) and a
\* cancel request, answered 200, has set the row to cancelled since
C22_Witness ==
    \E j \in JobIds :
        /\ JobExists(j)
        /\ task[j] = "calling"
        /\ jobs[j].started_at = NOW
        /\ jobs[j].status = CANCELLED
        /\ cancel_resp[j] = 200

\* C23: a job cancelled while pending (no worker had started it) is never
\* moved to processing afterwards.
C23_CancelledPendingNeverProcessed ==
    [][\A j \in JobIds :
          (JobExists(j) /\ jobs[j].status = CANCELLED /\ jobs[j].started_at = NULL_TS)
          => jobs'[j].status # PROCESSING]_vars

\* C24: with a worker that keeps running, a job in processing eventually
\* is completed, failed or cancelled, time limits included.
C24_ProcessingEventuallyEnds ==
    \A j \in JobIds :
        (JobExists(j) /\ jobs[j].status = PROCESSING)
            ~> (JobExists(j) /\ jobs[j].status \in Terminal)

\* ====================================================== generate endpoint

\* C25: a generate request answered with an error has created no job row
\* and left the campaign as it was; one answered 202 has created exactly
\* one pending job and the campaign's status is generating.
C25_GenerateAllOrNothing ==
    [][\A c \in Campaigns, org \in Orgs :
          generate_email_content(c, org)
          => IF api_resp'.code = 202
             THEN /\ Len(jobs') = Len(jobs) + 1
                  /\ jobs'[Len(jobs')].status = PENDING
                  /\ campaign_status'[c] = "generating"
             ELSE /\ jobs' = jobs
                  /\ campaign_status' = campaign_status]_vars

\* ======================================================= template versions

\* C26: no two templates of a campaign have the same version, also when
\* two create-template requests read the latest version before either of
\* them inserts.
C26_VersionsUnique ==
    \A i, k \in 1..Len(templates) :
        (i # k /\ templates[i].campaign_id = templates[k].campaign_id)
        => templates[i].version # templates[k].version

\* of two requests that had read the same version, one has inserted it and
\* the other was refused by the constraint
C26_Witness ==
    /\ api_resp.op = "create_template" /\ api_resp.code = 500
    /\ \A q \in Reqs : requests[q] = IdleRequest
    /\ \E i \in 1..Len(templates) : ~templates[i].is_current

\* ============================================================= confidence

\* C27: when a worker run completes a job with a non-empty variants list,
\* the job's confidence_score is the arithmetic mean of the variants'
\* confidence_score, a missing one counted as the fallback of the job type
\* (0.7 generation, 0.85 refinement, 0.8 subject lines).
C27_ConfidenceIsMean ==
    [][\A j \in JobIds, r \in Responses :
          ( /\ JobExists(j) /\ WorkerFinish(j, r)
            /\ jobs'[j].status = COMPLETED
            /\ jobs'[j].generated_content.variants # <<>> )
          => LET vs == jobs'[j].generated_content.variants
                 fallback == CASE jobs[j].job_type = INITIAL_GENERATION -> 70
                               [] jobs[j].job_type = REFINEMENT -> 85
                               [] jobs[j].job_type = SUBJECT_LINE_TEST -> 80
             IN jobs'[j].confidence_score * Len(vs) = SumScores(vs, fallback)]_vars

\* ======================================================== campaign status

\* C28: every change of a campaign's status is a transition of the table
\* of _validate_status_transition (so an archived campaign keeps its
\* status, and only a draft, review or paused campaign gets scheduled).
C28_OnlyAllowedTransitions ==
    [][\A c \in Campaigns :
          campaign_status'[c] # campaign_status[c]
          => campaign_status'[c] \in allowed_transitions(campaign_status[c])]_vars

\* C29: the cancel-campaign endpoint on a scheduled campaign is answered
\* 200, sets the status to draft and clears scheduled_at.
C29_CancelScheduledBackToDraft ==
    [][\A c \in Campaigns, org \in Orgs :
          (campaign_status[c] = "scheduled" /\ cancel_campaign(c, org))
          => ( /\ api_resp'.code = 200
               /\ campaign_status'[c] = "draft"
               /\ scheduled_at'[c] = NULL_TS )]_vars

\* ================================================== generation_iterations

\* C30: a campaign's generation_iterations is the number of regenerate
\* requests that have incremented it so far (those that have created their
\* job and those about to), also when two of them run at once.
C30_IterationsCountRegenerations ==
    \A c \in Campaigns :
        generation_iterations[c]
          = Cardinality({ j \in 1..Len(jobs) : jobs[j].campaign_id = c })
            + Cardinality({ q \in Reqs : /\ requests[q].op = "regenerate_job"
                                         /\ requests[q].campaign_id = c })

====
